---- MODULE Spec2Model ----
(***************************************************************************)
(* The 'events' replication stream of synapse/replication/tcp/streams/     *)
(* events.py: EventsStream.update_function (the feed's poll), its row      *)
(* registry TypeToRow and EventsStream.parse_row (the decode direction).   *)
(*                                                                         *)
(* The datastore (hs.get_datastore()) is not part of events.py; its two    *)
(* operations used here, get_current_events_token and                      *)
(* get_all_new_forward_event_rows, are modelled from the specification's   *)
(* boundary contract (section 6 and section 4.3).                          *)
(*                                                                         *)
(* Python values: None is the string NULL, an optional argument is a       *)
(* sequence of length 0 (None) or 1, a raised exception is the "raised"    *)
(* field of a call's outcome.                                              *)
(***************************************************************************)
EXTENDS Integers, Sequences, FiniteSets, TLC

\* ------------------------------------------------------------------ bounds
\* Largest stream position (token) of the model.
MaxTok == 2
\* Largest number of records written at one position (one atomic change point).
MaxGroup == 2
\* Largest limit a poll passes.
MaxLimit == 2
\* Largest length of the positional data handed to parse_row.
MaxData == 6

\* ------------------------------------------------------------------ values
\* Python's None, as a field value.
NULL == "null"

\* No exception was raised.
NoError == "ok"

\* dict lookup of a missing key (TypeToRow[typ]).
KeyError == "KeyError"

\* a call with the wrong number of positional arguments (cls(*data)).
TypeError == "TypeError"

Tokens == 0..MaxTok

\* limit=None, or an integer limit.
Limits == {<<>>} \cup {<<n>> : n \in 1..MaxLimit}

\* The five fields of an event as the datastore holds them:
\* event_id, room_id, type, state_key (or None), redacts (or None).
\* Event ids are globally unique.
RawContents ==
    { <<"$a", "!r1", "m.text", NULL, NULL>>,
      <<"$b", "!r1", "m.redaction", NULL, "$a">>,
      <<"$c", "!r2", "m.room.member", "@u", NULL>>,
      <<"$d", "!r2", "m.room.redaction", "", "$c">> }

\* The events the authority persists in the model, each at most once.
PersistedEvents ==
    { <<"$a", "!r1", "m.text", NULL, NULL>>,
      <<"$b", "!r1", "m.redaction", NULL, "$a">>,
      <<"$c", "!r2", "m.room.member", "@u", NULL>> }

\* Field values on the wire, for parse_row's inputs.
WireValues == {"$a", NULL}

\* Type tags on the wire: the registered one and two that are not.
WireTags == {"ev", "nonexistent_tag", ""}

\* Sequences over S of length at most n.
SeqUpTo(S, n) == UNION { [1..k -> S] : k \in 0..n }

\* ------------------------------------------------------------------ state
VARIABLES
    log,          \* the authority's change log: raw tuples, position first
    lastOp,       \* the operation of the last step
    call,         \* arguments of the last update_function call
    poll,         \* outcome of the last update_function call
    maxSeen,      \* largest position any of its polls returned so far
    prevMax,      \* maxSeen as it was before the last poll
    initTok,      \* catch-up consumer: the token it subscribed at
    from_token,   \* catch-up consumer: its current token
    received,     \* catch-up consumer: every update it was handed, in order
    sent,         \* codec: the raw row encoded last (length 0: none)
    wire,         \* codec: the (tag, data) row handed to parse_row last (length 0: none)
    parsed        \* codec: outcome of the last parse_row call

feedVars == <<lastOp, call, poll, maxSeen, prevMax>>
consumerVars == <<initTok, from_token, received>>
codecVars == <<sent, wire, parsed>>
vars == <<log, feedVars, consumerVars, codecVars>>

\* ------------------------------------------------------------------ datastore
\* The authority's latest position.
get_current_events_token(store) ==
    IF Len(store) = 0 THEN 0 ELSE store[Len(store)][1]

\* The first n elements of s (all of them when limit is None).
Capped(s, limit) ==
    IF Len(limit) = 0 \/ Len(s) <= limit[1] THEN s ELSE SubSeq(s, 1, limit[1])

\* Raw records with position in (last_id, current_id], ascending, at most limit.
get_all_new_forward_event_rows(store, last_id, current_id, limit) ==
    LET InRange(row) == last_id < row[1] /\ row[1] <= current_id
    IN  Capped(SelectSeq(store, InRange), limit)

\* ------------------------------------------------------------------ feed
\* (row[0], EventsStreamEventRow.TypeId, row[1:])
event_update_whole_row(row) == <<row[1], "ev", row>>

event_update(row) == <<row[1], "ev", Tail(row)>>

update_function_off_by_one(store, from_tok, current_token, limit) ==
    LET event_rows ==
            get_all_new_forward_event_rows(store, from_tok - 1, current_token, limit)
    IN  [ store_calls |-> << <<from_tok - 1, current_token, limit>> >>,
          event_rows  |-> event_rows,
          returnValue |-> [i \in 1..Len(event_rows) |-> event_update(event_rows[i])],
          raised      |-> NoError ]

\* EventsStream.update_function: one datastore query, then one update per row.
update_function(store, from_tok, current_token, limit) ==
    LET event_rows ==
            get_all_new_forward_event_rows(store, from_tok, current_token, limit)
    IN  [ store_calls |-> << <<from_tok, current_token, limit>> >>,
          event_rows  |-> event_rows,
          returnValue |-> [i \in 1..Len(event_rows) |-> event_update(event_rows[i])],
          raised      |-> NoError ]

\* ------------------------------------------------------------------ codec
\* The row type registry: TypeId -> row class.
TypeToRow == [typ \in {"ev"} |-> "EventsStreamEventRow"]

EventsStreamEventRow_swapped(args) ==
    IF Len(args) # 5
    THEN [raised |-> TypeError, value |-> <<>>]
    ELSE [raised |-> NoError,
          value  |-> << [event_id  |-> args[1], room_id |-> args[2],
                         type      |-> args[3],
                         state_key |-> args[5], redacts |-> args[4]] >>]

EventsStreamEventRow_lenient(args) ==
    IF Len(args) < 5
    THEN [raised |-> TypeError, value |-> <<>>]
    ELSE [raised |-> NoError,
          value  |-> << [event_id  |-> args[1], room_id |-> args[2],
                         type      |-> args[3],
                         state_key |-> args[4], redacts |-> args[5]] >>]

\* The attrs-generated constructor: five positional attributes, no defaults.
EventsStreamEventRow(args) ==
    IF Len(args) # 5
    THEN [raised |-> TypeError, value |-> <<>>]
    ELSE [raised |-> NoError,
          value  |-> << [event_id  |-> args[1], room_id |-> args[2],
                         type      |-> args[3],
                         state_key |-> args[4], redacts |-> args[5]] >>]

\* BaseEventsStreamRow.from_data: cls(*data)
from_data(cls, data) ==
    CASE cls = "EventsStreamEventRow" -> EventsStreamEventRow(data)

parse_row_default_type(row) ==
    LET typ  == row[1]
        data == row[2]
        d    == from_data("EventsStreamEventRow", data)
    IN  IF d.raised # NoError
        THEN d
        ELSE [raised |-> NoError,
              value  |-> << [type |-> typ, data |-> d.value[1]] >>]

\* EventsStream.parse_row
parse_row(row) ==
    LET typ  == row[1]
        data == row[2]
    IN  IF typ \notin DOMAIN TypeToRow
        THEN [raised |-> KeyError, value |-> <<>>]
        ELSE LET d == from_data(TypeToRow[typ], data)
             IN  IF d.raised # NoError
                 THEN d
                 ELSE [raised |-> NoError,
                       value  |-> << [type |-> typ, data |-> d.value[1]] >>]

\* ------------------------------------------------------------------ helpers
Max(a, b) == IF a >= b THEN a ELSE b

\* The largest position among updates, or floor when there is none.
MaxPosition(updates, floor) ==
    IF Len(updates) = 0 THEN floor ELSE Max(floor, updates[Len(updates)][1])

\* How many elements of s satisfy equal x.
Count(x, s) == Cardinality({i \in 1..Len(s) : s[i] = x})

\* ------------------------------------------------------------------ Init
Init ==
    /\ log = <<>>
    /\ lastOp = "init"
    /\ call = [from_token |-> 0, current_token |-> 0, limit |-> <<>>]
    /\ poll = [store_calls |-> <<>>, event_rows |-> <<>>,
               returnValue |-> <<>>, raised |-> NoError]
    /\ maxSeen = 0
    /\ prevMax = 0
    /\ initTok = 0
    /\ from_token = 0
    /\ received = <<>>
    /\ sent = <<>>
    /\ wire = <<>>
    /\ parsed = [raised |-> NoError, value |-> <<>>]

\* ------------------------------------------------------------------ actions
\* The authority persists one atomic change point: one or more records at a
\* new position above every position of the log.
PersistEvents ==
    \E p \in Tokens, group \in SeqUpTo(PersistedEvents, MaxGroup) :
        /\ Len(group) >= 1
        /\ \A i, j \in 1..Len(group) : group[i] = group[j] => i = j
        /\ \A i \in 1..Len(group), j \in 1..Len(log) : group[i][1] # log[j][2]
        /\ p > get_current_events_token(log)
        /\ log' = log \o [i \in 1..Len(group) |-> <<p>> \o group[i]]
        /\ lastOp' = "append"
        /\ UNCHANGED <<call, poll, maxSeen, prevMax>>
        /\ UNCHANGED <<consumerVars, codecVars>>

\* A sequential consumer polls with a from_token no smaller than its last one.
Poll ==
    \E f \in Tokens, t \in Tokens, lim \in Limits :
        /\ f >= call.from_token
        /\ call' = [from_token |-> f, current_token |-> t, limit |-> lim]
        /\ poll' = update_function(log, f, t, lim)
        /\ prevMax' = maxSeen
        /\ maxSeen' = MaxPosition(poll'.returnValue, maxSeen)
        /\ lastOp' = "poll"
        /\ UNCHANGED <<log, consumerVars, codecVars>>

Next == PersistEvents \/ Poll

Spec == Init /\ [][Next]_vars

\* A consumer subscribes at a past token.
Subscribe ==
    \E t \in Tokens :
        /\ t <= get_current_events_token(log)
        /\ initTok' = t
        /\ from_token' = t
        /\ received' = <<>>
        /\ UNCHANGED <<log, feedVars, codecVars>>

\* One catch-up poll up to the authority's current position; the consumer's
\* token becomes the position of the last row returned.
CatchUp ==
    \E n \in 1..MaxLimit :
        LET res == update_function(log, from_token,
                                   get_current_events_token(log), <<n>>)
            rows == res.returnValue
        IN  /\ received' = received \o rows
            /\ from_token' = IF Len(rows) = 0 THEN from_token
                             ELSE rows[Len(rows)][1]
            /\ UNCHANGED <<initTok, log, feedVars, codecVars>>

NextCatchUp == PersistEvents \/ Subscribe \/ CatchUp

SpecCatchUp == Init /\ [][NextCatchUp]_vars

\* A (tag, data) row arrives from the transport.
ParseRow ==
    \E typ \in WireTags, data \in SeqUpTo(WireValues, MaxData) :
        /\ sent' = <<>>
        /\ wire' = <<typ, data>>
        /\ parsed' = parse_row(wire')
        /\ UNCHANGED <<log, feedVars, consumerVars>>

\* The sending side emits a raw row through update_function's wrapping and the
\* receiving side parses the (tag, data) part of it.
SendAndParse ==
    \E p \in Tokens, c \in RawContents :
        LET update == event_update(<<p>> \o c)
        IN  /\ sent' = << <<p>> \o c >>
            /\ wire' = <<update[2], update[3]>>
            /\ parsed' = parse_row(wire')
            /\ UNCHANGED <<log, feedVars, consumerVars>>

NextCodec == ParseRow \/ SendAndParse

SpecCodec == Init /\ [][NextCodec]_vars

\* ------------------------------------------------------------------ properties
\* The log records with position in (lo, hi].
LogRange(lo, hi) ==
    LET InRange(row) == lo < row[1] /\ row[1] <= hi
    IN  SelectSeq(log, InRange)

\* The last step was an update_function call on the log as it is now.
Polled == lastOp = "poll"

\* C1: a consumer that catches up with limit-bounded polls, moving its token
\* to the position of the last row returned, has received every log record
\* with position in (initial token, current token]: none is skipped.
C1_NoGapsUnderLimit ==
    \A i \in 1..Len(log) :
        (initTok < log[i][1] /\ log[i][1] <= from_token)
            => Count(event_update(log[i]), received) >= Count(log[i], log)

\* C2 as stated: whenever a sequential consumer polls with a from_token no
\* smaller than its previous one, every row returned has a position above
\* every position an earlier poll returned.
C2_OrderingAnyNonDecreasingFrom ==
    Polled => \A i \in 1..Len(poll.returnValue) :
                  poll.returnValue[i][1] > prevMax

\* C2 amended: when the poll's from_token is at least the largest position
\* returned by the earlier polls, every row returned has a position above
\* every position an earlier poll returned.
C2_OrderingFromLastReturned ==
    (Polled /\ call.from_token >= prevMax)
        => \A i \in 1..Len(poll.returnValue) :
               poll.returnValue[i][1] > prevMax

C2_Witness ==
    /\ Polled
    /\ prevMax >= 1
    /\ call.from_token >= prevMax
    /\ call.from_token < call.current_token
    /\ Len(poll.returnValue) >= 1

\* C3: range monotonicity. With no limit and an unchanged log, the rows of
\* poll(A, C) are those of poll(A, B) followed by those of poll(B, C), for
\* every B with A <= B <= C.
C3_RangeMonotonicity ==
    (Polled /\ call.limit = <<>> /\ call.from_token <= call.current_token)
        => \A B \in call.from_token..call.current_token :
               poll.returnValue =
                   update_function(log, call.from_token, B, <<>>).returnValue
                   \o update_function(log, B, call.current_token, <<>>).returnValue

C3_Witness ==
    /\ Polled
    /\ call.limit = <<>>
    /\ \E B \in Tokens :
          /\ call.from_token < B
          /\ B < call.current_token
          /\ Len(LogRange(call.from_token, B)) >= 1
          /\ Len(LogRange(B, call.current_token)) >= 1
          /\ Len(poll.returnValue) =
                 Len(LogRange(call.from_token, B))
                 + Len(LogRange(B, call.current_token))

\* C4: a poll with from_token > to_token fails with InvalidRange and never
\* issues the datastore query.
C4_InvalidRangeRejected ==
    (Polled /\ call.from_token > call.current_token)
        => (poll.raised = "InvalidRange" /\ poll.store_calls = <<>>)

\* C5: parse_row of a tag that is no key of TypeToRow fails on the registry
\* lookup (the KeyError of TypeToRow[typ], the spec's UnknownRowType) for
\* every data value, and returns no envelope.
C5_UnknownTagRejected ==
    (Len(wire) = 2 /\ wire[1] \notin DOMAIN TypeToRow)
        => (parsed.raised = KeyError /\ parsed.value = <<>>)

C5_Witness ==
    /\ Len(wire) = 2
    /\ wire[1] = "nonexistent_tag"
    /\ Len(wire[2]) = 5
    /\ parsed.raised = KeyError

\* C6: parse_row of an "ev" row whose data has fewer or more than five
\* elements fails on the constructor call (the TypeError of cls(*data), the
\* spec's MalformedRow) and returns no envelope.
C6_ArityEnforced ==
    (Len(wire) = 2 /\ wire[1] = "ev" /\ Len(wire[2]) # 5)
        => (parsed.raised = TypeError /\ parsed.value = <<>>)

C6_Witness ==
    /\ Len(wire) = 2
    /\ wire[1] = "ev"
    /\ Len(wire[2]) = 6
    /\ parsed.raised = TypeError

\* C7: round trip. Parsing the (tag, data) that update_function emits for a
\* raw row yields an envelope with tag "ev" whose five fields are the raw
\* row's, absent state_key and absent redacts included.
C7_RoundTrip ==
    Len(sent) = 1
        => /\ parsed.raised = NoError
           /\ Len(parsed.value) = 1
           /\ parsed.value[1].type = "ev"
           /\ parsed.value[1].data.event_id = sent[1][2]
           /\ parsed.value[1].data.room_id = sent[1][3]
           /\ parsed.value[1].data.type = sent[1][4]
           /\ parsed.value[1].data.state_key = sent[1][5]
           /\ parsed.value[1].data.redacts = sent[1][6]

C7_Witness ==
    /\ Len(sent) = 1
    /\ sent[1][5] = NULL
    /\ sent[1][6] # NULL
    /\ parsed.raised = NoError
    /\ parsed.value[1].data.state_key = NULL
    /\ parsed.value[1].data.redacts = sent[1][6]

\* C8: empty range. A poll with from_token = to_token returns no row,
\* whatever the log holds and whatever the limit.
C8_EmptyRange ==
    (Polled /\ call.from_token = call.current_token)
        => poll.returnValue = <<>>

C8_Witness ==
    /\ Polled
    /\ call.from_token = call.current_token
    /\ call.limit # <<>>
    /\ Len(LogRange(call.from_token - 1, call.from_token)) >= 1
    /\ poll.returnValue = <<>>

\* C9: a poll with a limit never returns only some of the rows that share a
\* position: for every position in the batch, all log records at that
\* position within (from_token, to_token] are in the batch.
C9_LimitKeepsPositionGroups ==
    (Polled /\ call.limit # <<>>)
        => \A i \in 1..Len(poll.returnValue) :
               LET p == poll.returnValue[i][1]
               IN  Cardinality({j \in 1..Len(poll.returnValue) :
                                    poll.returnValue[j][1] = p})
                   = Cardinality({j \in 1..Len(log) :
                                    /\ log[j][1] = p
                                    /\ call.from_token < p
                                    /\ p <= call.current_token})

\* C10: update_function returns one element per raw record the datastore
\* returns for the call, in the same order, each with the record's position,
\* the tag "ev" and the record's five remaining fields in order.
C10_TypedWrapping ==
    Polled =>
        LET raw == get_all_new_forward_event_rows(
                       log, call.from_token, call.current_token, call.limit)
        IN  /\ Len(poll.returnValue) = Len(raw)
            /\ \A i \in 1..Len(raw) :
                   /\ Len(poll.returnValue[i]) = 3
                   /\ poll.returnValue[i][1] = raw[i][1]
                   /\ poll.returnValue[i][2] = "ev"
                   /\ Len(poll.returnValue[i][3]) = 5
                   /\ \A k \in 1..5 : poll.returnValue[i][3][k] = raw[i][k + 1]

C10_Witness ==
    /\ Polled
    /\ call = [from_token |-> 0, current_token |-> 2, limit |-> <<>>]
    /\ poll.returnValue =
           << <<1, "ev", <<"$a", "!r1", "m.text", NULL, NULL>>>>,
              <<2, "ev", <<"$b", "!r1", "m.redaction", NULL, "$a">>>> >>

====
